---- MODULE Spec2Model ----
(***************************************************************************)
(* A state-machine model of runsm (src/runsm.go), the ScoreMaster server   *)
(* supervisor: the main thread (setupRun, runCaddy, runEBCFetch, the       *)
(* signal wait and the shutdown steps), the runPHP respawn goroutine, the  *)
(* monitorIP goroutine and the signal goroutine.                           *)
(*                                                                         *)
(* Strings are the program's strings.  A file is the sequence of its       *)
(* newline-free pieces and NL tokens, in the order WriteString wrote them. *)
(* Time is counted in minutes, and only where the code blocks on it: the   *)
(* context timeout of execPHP.                                             *)
(***************************************************************************)
EXTENDS Naturals, Integers, Sequences, FiniteSets, TLC

(***************************************************************************)
(* Bounds of the model.                                                    *)
(***************************************************************************)
\* The -respawn values tried, in minutes: 1..MaxRespawn.
MaxRespawn == 2
\* execPHP invocations after which the respawn loop is no longer followed.
MaxLaunches == 3

(***************************************************************************)
(* Program constants.                                                      *)
(***************************************************************************)
NL == "\n"
cgiport == "127.0.0.1:9000"
cgiPortNumber == "9000"          \* strings.Split(cgiport, ":")[1]
smCaddyFolder == "caddy"
starturl == "http://localhost"
loopbackIP == "127.0.0.1"        \* net.IPv4(127, 0, 0, 1)

\* Flag defaults (flag.Bool / flag.String / flag.Int).
debugDefault == FALSE
cdebugDefault == FALSE
portDefault == "80"
alternateWebPortDefault == "2015"
ipspecDefault == ""
spawnIntervalDefault == 60
nolocalDefault == FALSE
ipWatchDefault == FALSE

\* An option that is absent from the command line.
NoArg == "<absent>"
\* A nil context.CancelFunc, and a non-nil one.
Nil == "nil"
Cancel == "cancel"

(***************************************************************************)
(* Input domains.                                                          *)
(***************************************************************************)
Platforms == {"windows", "linux", "plan9"}
ExeNames == {"runsm", "runsm-debug"}
WebPorts == {"80", "2015", "8080"}
IPSpecs == {"*", "192.168.1.10"}
\* What else stands on the command line: nothing, a request for help, an
\* option the program does not define.
ExtraArgs == {NoArg, "-h", "-x"}
\* Local addresses the route lookup of getOutboundIP can give.
LocalIPs == {"192.168.1.10"}

VARIABLES
    platform,          \* runtime.GOOS
    args,              \* os.Args: the executable's name and the options given
    listening,         \* ports on which a listener answers on localhost
    unbindable,        \* ports on which net.Listen(":port") fails
    phpdbg,            \* var phpdbg
    debug, cdebug, port, alternateWebPort, ipspec, spawnInterval, nolocal, ipWatch,
    shuttingDown,      \* var shuttingDown
    mainPC,            \* position of the main goroutine
    exitStatus,        \* process exit status, -1 while the process runs
    cancelCaddy, cancelEBCFetch, serverIP,   \* main's locals
    caddyfile,         \* caddy/caddyfile: <<>> until written
    caddyRunning,      \* the webserver started by "caddy start" is up
    caddyStops,        \* "caddy stop" commands issued
    ebcRunning,        \* the ebcfetch child was started
    ebcStops,          \* killEBCFetch calls
    dbgStarts,         \* debugPHP launches of the interpreter
    browserURL,        \* URL handed to browser.OpenURL, "" if none
    phpPC,             \* position of the runPHP goroutine
    childElapsed,      \* minutes the in-flight php-cgi child has run
    launches,          \* execPHP invocations so far
    launchesAfterFlag, \* those begun when shuttingDown was already true
    lastRun,           \* how the last finished execPHP invocation ended
    monPC,             \* position of the monitorIP goroutine
    monIP,             \* monitorIP's serverIP
    lookups,           \* the last two getOutboundIP results, newest last
    pollLogs,          \* change lines printed by the last monitorIP iteration
    sigs,              \* signals buffered in the sigs channel (capacity 1)
    sigPC,             \* position of the signal goroutine
    done,              \* values buffered in the done channel (capacity 1)
    shutdownLog,       \* shutdown steps taken, in order
    cancelCalls,       \* calls made of the two context.CancelFunc handles
    caddyProbes,       \* the port probes runCaddy made, in order
    phpChildren        \* php-cgi children of the respawn loop that are alive

flagVars == <<debug, cdebug, port, alternateWebPort, ipspec, spawnInterval, nolocal, ipWatch>>
envVars == <<platform, args, listening, unbindable, phpdbg>>
mainVars == <<mainPC, exitStatus, cancelCaddy, cancelEBCFetch, serverIP>>
childVars == <<caddyfile, caddyRunning, caddyStops, ebcRunning, ebcStops, dbgStarts, browserURL>>
phpVars == <<phpPC, childElapsed, launches, launchesAfterFlag, lastRun, phpChildren>>
monVars == <<monPC, monIP, lookups, pollLogs>>
sigVars == <<sigs, sigPC, done>>
vars == <<envVars, flagVars, shuttingDown, mainVars, childVars, phpVars, monVars,
          sigVars, shutdownLog, cancelCalls, caddyProbes>>

(***************************************************************************)
(* Pure helpers.                                                           *)
(***************************************************************************)
\* init(): the debug-capable interpreter path of the platform.
phpdbgFor(os) ==
    CASE os = "darwin" -> "/usr/bin/php"
      [] os = "linux" -> "/usr/bin/php"
      [] os = "windows" -> "\\php\\php"
      [] OTHER -> ""

\* filepath.Join of two elements.
filepathJoin(os, a, b) == IF os = "windows" THEN a \o "\\" \o b ELSE a \o "/" \o b

\* strings.Contains(filename, "debug") for the executable names tried.
ContainsDebug(filename) == filename = "runsm-debug"

\* rawPortAvail with the dial's error ignored: every port is "available".
rawPortAvailAlways(p) == TRUE

\* rawPortAvail: the port is "available" unless a dial to localhost succeeds.
rawPortAvail(p) == p \notin listening

\* testWebPort: whether net.Listen on ":"+port succeeds (the listener is closed
\* again at once).  The OS refuses for want of privilege or for any other reason.
testWebPort(p) == p \notin unbindable

\* The value a flag takes after flag.Parse.
FlagValue(given, default) == IF given = NoArg THEN default ELSE given

\* The value an integer flag takes: the option is <<>> when absent, <<n>> when given.
FlagInt(given, default) == IF given = <<>> THEN default ELSE given[1]

\* The options that stand on the command line.
GivenFlags(a) ==
    {n \in {"debug", "cdebug", "nolocal", "watch"} : a[n]}
    \cup {n \in {"port", "altport", "ip"} : a[n] # NoArg}
    \cup {n \in {"respawn"} : a[n] # <<>>}

\* flag.Parse on the default flag set (flag.ExitOnError), line 366, at an
\* argument it does not accept: os.Exit(0) for a request for help, os.Exit(2)
\* for anything else (an option that is not defined, a value that does not
\* parse).
flagParseExit(extra) == IF extra \in {"-h", "-help"} THEN 0 ELSE 2

\* getOutboundIP: the local address of a UDP "connection" to 8.8.8.8:80, or
\* the loopback address when the dial fails.
getOutboundIP(dialOK, localAddr) == IF dialOK THEN localAddr ELSE loopbackIP

\* Every result getOutboundIP can give.
OutboundIPs == {getOutboundIP(ok, a) : ok \in BOOLEAN, a \in LocalIPs}

\* net.IP.Equal on addresses.
IPEqual(a, b) == a = b

\* The fallback left out: the requested port is kept whatever the probes say.
ResolvedPortNoFallback(ip, p, alt) == p

\* The probe of the requested port left out: a bindable alternate port wins.
ResolvedPortPrefersAlt(ip, p, alt) ==
    IF ip = "*" /\ p # alt /\ testWebPort(alt) THEN alt ELSE p

\* The test of the bind address at line 279 left out: every address is probed.
ResolvedPortAnyAddress(ip, p, alt) ==
    IF ~testWebPort(p) /\ p # alt /\ testWebPort(alt) THEN alt ELSE p

\* runCaddy, lines 279-291: the port the webserver is to serve, given the
\* bind address, the requested port and the alternate port.
ResolvedPort(ip, p, alt) ==
    IF ip = "*" /\ ~testWebPort(p) /\ p # alt /\ testWebPort(alt) THEN alt ELSE p

\* The configuration text with the newline of the last WriteString left out.
CaddyfileTextNoFinalNewline(os, cdbg, ip, p) ==
    <<"{", NL, "http_port " \o p, NL>>
    \o (IF cdbg
        THEN <<"debug", NL>>
             \o <<"log {", NL,
                  "output file " \o filepathJoin(os, smCaddyFolder, "error.log"), NL,
                  "}", NL>>
        ELSE <<>>)
    \o <<"}", NL>>
    \o <<ip \o ":" \o p, NL>>
    \o <<"file_server", NL>>
    \o <<"root sm", NL>>
    \o <<"php_fastcgi " \o cgiport>>

\* runCaddy, lines 279-291: the probes made, in order: a dial to the port
\* (rawPortAvail) or a listen on it (testWebPort).  None unless the bind
\* address is "*"; the alternate port is tried only after the requested port
\* was refused, and only when it is another port.
CaddyProbes(ip, p, alt) ==
    IF ip # "*" THEN <<>>
    ELSE IF ~rawPortAvail(p) THEN <<"dial " \o p>>
    ELSE IF testWebPort(p) THEN <<"dial " \o p, "listen " \o p>>
    ELSE IF p # alt THEN <<"dial " \o p, "listen " \o p, "listen " \o alt>>
    ELSE <<"dial " \o p, "listen " \o p>>

\* runCaddy, lines 301-310: the text written to the configuration file.
CaddyfileText(os, cdbg, ip, p) ==
    <<"{", NL, "http_port " \o p, NL>>
    \o (IF cdbg
        THEN <<"debug", NL>>
             \o <<"log {", NL,
                  "output file " \o filepathJoin(os, smCaddyFolder, "error.log"), NL,
                  "}", NL>>
        ELSE <<>>)
    \o <<"}", NL>>
    \o <<ip \o ":" \o p, NL>>
    \o <<"file_server", NL>>
    \o <<"root sm", NL>>
    \o <<"php_fastcgi " \o cgiport, NL>>

\* showInvite, lines 195-202: the URL presented to the browser.
InviteURL(ip, p) == (IF ip # "" THEN "http://" \o ip ELSE starturl) \o ":" \o p

\* The process is running: neither main has returned nor os.Exit was called.
Alive == mainPC # "exited"

\* os.Exit(code), log.Fatal (code 1) or main returning (code 0).
Exit(code) == mainPC' = "exited" /\ exitStatus' = code

(***************************************************************************)
(* Initial states: the process after init(), before main.                  *)
(***************************************************************************)
ArgsOf(exes, dbgs, cdbgs, ports, alts, ips, respawns, nolocals, watches, extras) ==
    [exe : exes, debug : dbgs, cdebug : cdbgs, port : ports, altport : alts,
     ip : ips, respawn : respawns, nolocal : nolocals, watch : watches,
     extra : extras]

InitWith(a, os, ls, ub) ==
    /\ platform = os
    /\ args = a
    /\ listening = ls
    /\ unbindable = ub
    /\ phpdbg = phpdbgFor(os)
    /\ debug = debugDefault
    /\ cdebug = cdebugDefault
    /\ port = portDefault
    /\ alternateWebPort = alternateWebPortDefault
    /\ ipspec = ipspecDefault
    /\ spawnInterval = spawnIntervalDefault
    /\ nolocal = nolocalDefault
    /\ ipWatch = ipWatchDefault
    /\ shuttingDown = FALSE
    /\ mainPC = "setupRun"
    /\ exitStatus = -1
    /\ cancelCaddy = Nil
    /\ cancelEBCFetch = Nil
    /\ serverIP = ""
    /\ caddyfile = <<>>
    /\ caddyRunning = FALSE
    /\ caddyStops = 0
    /\ ebcRunning = FALSE
    /\ ebcStops = 0
    /\ dbgStarts = 0
    /\ browserURL = ""
    /\ phpPC = "idle"
    /\ childElapsed = 0
    /\ launches = 0
    /\ launchesAfterFlag = 0
    /\ lastRun = [how |-> "none", len |-> 0]
    /\ monPC = "idle"
    /\ monIP = ""
    /\ lookups = <<>>
    /\ pollLogs = 0
    /\ sigs = 0
    /\ sigPC = "idle"
    /\ done = 0
    /\ shutdownLog = <<>>
    /\ cancelCalls = [caddy |-> 0, ebc |-> 0]
    /\ caddyProbes = <<>>
    /\ phpChildren = 0

(***************************************************************************)
(* The main goroutine.                                                     *)
(***************************************************************************)
\* setupRun, lines 359-371: flag.Parse, then the debug mode inferred from the
\* executable's name on Windows.  flag.Parse (line 366) assigns the options in
\* the order of the command line; at an argument it rejects it ends the
\* process, the options that stood before that argument assigned, the others
\* at their defaults, and lines 367-370 not run.
setupRun ==
    /\ mainPC = "setupRun"
    /\ \E seen \in (IF args.extra = NoArg THEN {GivenFlags(args)}
                   ELSE SUBSET GivenFlags(args)) :
          /\ LET parsed == IF "debug" \in seen THEN TRUE ELSE debugDefault
             IN debug' = IF args.extra = NoArg /\ ~parsed /\ platform = "windows"
                         THEN ContainsDebug(args.exe)
                         ELSE parsed
          /\ cdebug' = (IF "cdebug" \in seen THEN TRUE ELSE cdebugDefault)
          /\ port' = FlagValue(IF "port" \in seen THEN args.port ELSE NoArg,
                               portDefault)
          /\ alternateWebPort' =
                FlagValue(IF "altport" \in seen THEN args.altport ELSE NoArg,
                          alternateWebPortDefault)
          /\ ipspec' = FlagValue(IF "ip" \in seen THEN args.ip ELSE NoArg,
                                 ipspecDefault)
          /\ spawnInterval' =
                FlagInt(IF "respawn" \in seen THEN args.respawn ELSE <<>>,
                        spawnIntervalDefault)
          /\ nolocal' = (IF "nolocal" \in seen THEN TRUE ELSE nolocalDefault)
          /\ ipWatch' = (IF "watch" \in seen THEN TRUE ELSE ipWatchDefault)
    /\ IF args.extra = NoArg
       THEN mainPC' = "ipWatch" /\ UNCHANGED exitStatus
       ELSE Exit(flagParseExit(args.extra))
    /\ UNCHANGED <<envVars, cancelCalls, caddyProbes, shuttingDown, cancelCaddy, cancelEBCFetch,
                   serverIP, childVars, phpVars, monVars, sigVars, shutdownLog>>

\* main, lines 129-132: the startup lookup of the outbound address.
MainIPWatch ==
    /\ mainPC = "ipWatch"
    /\ IF ipWatch
       THEN \E ok \in BOOLEAN, a \in LocalIPs :
                /\ serverIP' = getOutboundIP(ok, a)
                /\ lookups' = <<getOutboundIP(ok, a)>>
       ELSE UNCHANGED <<serverIP, lookups>>
    /\ mainPC' = "mode"
    /\ UNCHANGED <<envVars, cancelCalls, caddyProbes, flagVars, shuttingDown, exitStatus, cancelCaddy,
                   cancelEBCFetch, childVars, phpVars, monPC, monIP, pollLogs,
                   sigVars, shutdownLog>>

\* main line 135 and debugPHP, lines 206-221: the interpreter started directly;
\* a failed start is fatal.
MainDebugPHP ==
    /\ mainPC = "mode"
    /\ debug /\ phpdbg # ""
    /\ dbgStarts' = dbgStarts + 1
    /\ \E startOK \in BOOLEAN :
          IF startOK
          THEN mainPC' = "ebc" /\ UNCHANGED exitStatus
          ELSE Exit(1)
    /\ UNCHANGED <<envVars, cancelCalls, caddyProbes, flagVars, shuttingDown, cancelCaddy, cancelEBCFetch,
                   serverIP, caddyfile, caddyRunning, caddyStops, ebcRunning,
                   ebcStops, browserURL, phpVars, monVars, sigVars, shutdownLog>>

\* runCaddy logging the failure of "caddy start" without log.Fatal: it
\* returns its handle and main goes on.
MainRunCaddyNotFatal ==
    /\ mainPC = "mode"
    /\ ~(debug /\ phpdbg # "")
    /\ caddyProbes' = CaddyProbes(ipspec, port, alternateWebPort)
    /\ IF ipspec = "*" /\ ~rawPortAvail(port)
       THEN /\ cancelCaddy' = Nil
            /\ mainPC' = "goPHP"
            /\ UNCHANGED <<port, exitStatus, caddyfile, caddyRunning>>
       ELSE /\ port' = ResolvedPort(ipspec, port, alternateWebPort)
            /\ \E createOK \in BOOLEAN, runOK \in BOOLEAN :
                  IF ~createOK
                  THEN /\ Exit(1)
                       /\ UNCHANGED <<cancelCaddy, caddyfile, caddyRunning>>
                  ELSE /\ caddyfile' = CaddyfileText(platform, cdebug, ipspec, port')
                       /\ caddyRunning' = runOK
                       /\ cancelCaddy' = Cancel
                       /\ mainPC' = "goPHP"
                       /\ UNCHANGED exitStatus
    /\ UNCHANGED <<envVars, cancelCalls, debug, cdebug, alternateWebPort, ipspec, spawnInterval,
                   nolocal, ipWatch, shuttingDown, cancelEBCFetch, serverIP,
                   caddyStops, ebcRunning, ebcStops, dbgStarts, browserURL,
                   phpVars, monVars, sigVars, shutdownLog>>

\* runCaddy treating an answering primary port as fatal (log.Fatal in place of
\* the return at line 282).
MainRunCaddyConflictFatal ==
    /\ mainPC = "mode"
    /\ ~(debug /\ phpdbg # "")
    /\ caddyProbes' = CaddyProbes(ipspec, port, alternateWebPort)
    /\ IF ipspec = "*" /\ ~rawPortAvail(port)
       THEN /\ Exit(1)
            /\ UNCHANGED <<port, cancelCaddy, caddyfile, caddyRunning>>
       ELSE /\ port' = ResolvedPort(ipspec, port, alternateWebPort)
            /\ \E createOK \in BOOLEAN, runOK \in BOOLEAN :
                  IF ~createOK
                  THEN /\ Exit(1)
                       /\ UNCHANGED <<cancelCaddy, caddyfile, caddyRunning>>
                  ELSE /\ caddyfile' = CaddyfileText(platform, cdebug, ipspec, port')
                       /\ IF runOK
                          THEN /\ caddyRunning' = TRUE
                               /\ cancelCaddy' = Cancel
                               /\ mainPC' = "goPHP"
                               /\ UNCHANGED exitStatus
                          ELSE /\ Exit(1)
                               /\ UNCHANGED <<cancelCaddy, caddyRunning>>
    /\ UNCHANGED <<envVars, cancelCalls, debug, cdebug, alternateWebPort, ipspec, spawnInterval,
                   nolocal, ipWatch, shuttingDown, cancelEBCFetch, serverIP,
                   caddyStops, ebcRunning, ebcStops, dbgStarts, browserURL,
                   phpVars, monVars, sigVars, shutdownLog>>

\* main line 137 and runCaddy, lines 276-324.
MainRunCaddy ==
    /\ mainPC = "mode"
    /\ ~(debug /\ phpdbg # "")
    /\ caddyProbes' = CaddyProbes(ipspec, port, alternateWebPort)
    /\ IF ipspec = "*" /\ ~rawPortAvail(port)
       THEN \* "already served": no file, no launch, a nil handle
            /\ cancelCaddy' = Nil
            /\ mainPC' = "goPHP"
            /\ UNCHANGED <<port, exitStatus, caddyfile, caddyRunning>>
       ELSE /\ port' = ResolvedPort(ipspec, port, alternateWebPort)
            /\ \E createOK \in BOOLEAN, runOK \in BOOLEAN :
                  IF ~createOK
                  THEN \* os.Create failed: log.Fatal
                       /\ Exit(1)
                       /\ UNCHANGED <<cancelCaddy, caddyfile, caddyRunning>>
                  ELSE /\ caddyfile' = CaddyfileText(platform, cdebug, ipspec, port')
                       /\ IF runOK
                          THEN /\ caddyRunning' = TRUE
                               /\ cancelCaddy' = Cancel
                               /\ mainPC' = "goPHP"
                               /\ UNCHANGED exitStatus
                          ELSE \* "caddy start" failed: log.Fatal
                               /\ Exit(1)
                               /\ UNCHANGED <<cancelCaddy, caddyRunning>>
    /\ UNCHANGED <<envVars, cancelCalls, debug, cdebug, alternateWebPort, ipspec, spawnInterval,
                   nolocal, ipWatch, shuttingDown, cancelEBCFetch, serverIP,
                   caddyStops, ebcRunning, ebcStops, dbgStarts, browserURL,
                   phpVars, monVars, sigVars, shutdownLog>>

\* main line 138: go runPHP().
MainGoRunPHP ==
    /\ mainPC = "goPHP"
    /\ phpPC' = "probe"
    /\ mainPC' = "ebc"
    /\ UNCHANGED <<envVars, cancelCalls, caddyProbes, flagVars, shuttingDown, exitStatus, cancelCaddy,
                   cancelEBCFetch, serverIP, childVars, childElapsed, launches,
                   launchesAfterFlag, lastRun, phpChildren, monVars, sigVars,
                   shutdownLog>>

\* runEBCFetch with the failed start only reported: main goes on without the
\* fetch utility and without a handle.
MainRunEBCFetchNotFatal ==
    /\ mainPC = "ebc"
    /\ \E startOK \in BOOLEAN :
          IF startOK
          THEN ebcRunning' = TRUE /\ cancelEBCFetch' = Cancel
          ELSE UNCHANGED <<ebcRunning, cancelEBCFetch>>
    /\ mainPC' = "invite"
    /\ UNCHANGED <<envVars, cancelCalls, caddyProbes, flagVars, shuttingDown,
                   exitStatus, cancelCaddy, serverIP, caddyfile, caddyRunning,
                   caddyStops, ebcStops, dbgStarts, browserURL, phpVars, monVars,
                   sigVars, shutdownLog>>

\* runEBCFetch stopping a started webserver before it gives up.
MainRunEBCFetchStopsCaddy ==
    /\ mainPC = "ebc"
    /\ \E startOK \in BOOLEAN :
          IF startOK
          THEN /\ ebcRunning' = TRUE
               /\ cancelEBCFetch' = Cancel
               /\ mainPC' = "invite"
               /\ UNCHANGED <<exitStatus, caddyStops>>
          ELSE /\ Exit(1)
               /\ caddyStops' = IF cancelCaddy # Nil THEN caddyStops + 1
                                ELSE caddyStops
               /\ UNCHANGED <<ebcRunning, cancelEBCFetch>>
    /\ UNCHANGED <<envVars, cancelCalls, caddyProbes, flagVars, shuttingDown, cancelCaddy, serverIP, caddyfile,
                   caddyRunning, ebcStops, dbgStarts, browserURL,
                   phpVars, monVars, sigVars, shutdownLog>>

\* main line 141 and runEBCFetch, lines 326-345: a failed start is fatal.
MainRunEBCFetch ==
    /\ mainPC = "ebc"
    /\ \E startOK \in BOOLEAN :
          IF startOK
          THEN /\ ebcRunning' = TRUE
               /\ cancelEBCFetch' = Cancel
               /\ mainPC' = "invite"
               /\ UNCHANGED exitStatus
          ELSE /\ Exit(1)
               /\ UNCHANGED <<ebcRunning, cancelEBCFetch>>
    /\ UNCHANGED <<envVars, cancelCalls, caddyProbes, flagVars, shuttingDown, cancelCaddy, serverIP, caddyfile,
                   caddyRunning, caddyStops, ebcStops, dbgStarts, browserURL,
                   phpVars, monVars, sigVars, shutdownLog>>

\* main lines 143-145 and showInvite, lines 193-204.
MainShowInvite ==
    /\ mainPC = "invite"
    /\ browserURL' = IF ~nolocal THEN InviteURL(ipspec, port) ELSE browserURL
    /\ mainPC' = "debugExit"
    /\ UNCHANGED <<envVars, cancelCalls, caddyProbes, flagVars, shuttingDown, exitStatus, cancelCaddy,
                   cancelEBCFetch, serverIP, caddyfile, caddyRunning, caddyStops,
                   ebcRunning, ebcStops, dbgStarts, phpVars, monVars, sigVars,
                   shutdownLog>>

\* The os.Exit(0) of debug mode left out: main goes on to wait for a signal.
MainDebugExitStays ==
    /\ mainPC = "debugExit"
    /\ mainPC' = "goMonitor"
    /\ UNCHANGED <<envVars, cancelCalls, caddyProbes, flagVars, shuttingDown, exitStatus, cancelCaddy,
                   cancelEBCFetch, serverIP, childVars, phpVars, monVars, sigVars,
                   shutdownLog>>

\* main lines 147-150: in debug mode the program quits here.
MainDebugExit ==
    /\ mainPC = "debugExit"
    /\ IF debug
       THEN Exit(0)
       ELSE mainPC' = "goMonitor" /\ UNCHANGED exitStatus
    /\ UNCHANGED <<envVars, cancelCalls, caddyProbes, flagVars, shuttingDown, cancelCaddy, cancelEBCFetch,
                   serverIP, childVars, phpVars, monVars, sigVars, shutdownLog>>

\* main lines 152-154: go monitorIP(serverIP).
MainGoMonitor ==
    /\ mainPC = "goMonitor"
    /\ IF ipWatch
       THEN monPC' = "running" /\ monIP' = serverIP
       ELSE UNCHANGED <<monPC, monIP>>
    /\ mainPC' = "notify"
    /\ UNCHANGED <<envVars, cancelCalls, caddyProbes, flagVars, shuttingDown, exitStatus, cancelCaddy,
                   cancelEBCFetch, serverIP, childVars, phpVars, lookups, pollLogs,
                   sigVars, shutdownLog>>

\* main lines 157-166: the channels, signal.Notify and the signal goroutine.
MainNotify ==
    /\ mainPC = "notify"
    /\ sigPC' = "waiting"
    /\ mainPC' = "wait"
    /\ UNCHANGED <<envVars, cancelCalls, caddyProbes, flagVars, shuttingDown, exitStatus, cancelCaddy,
                   cancelEBCFetch, serverIP, childVars, phpVars, monVars, sigs, done,
                   shutdownLog>>

\* The wait without the receive from done: shutdown starts with no signal.
MainWaitNoReceive ==
    /\ mainPC = "wait"
    /\ mainPC' = "setFlag"
    /\ UNCHANGED <<envVars, cancelCalls, caddyProbes, flagVars, shuttingDown, exitStatus, cancelCaddy,
                   cancelEBCFetch, serverIP, childVars, phpVars, monVars, sigVars,
                   shutdownLog>>

\* main line 167: <-done.
MainWait ==
    /\ mainPC = "wait"
    /\ done = 1
    /\ done' = 0
    /\ mainPC' = "setFlag"
    /\ UNCHANGED <<envVars, cancelCalls, caddyProbes, flagVars, shuttingDown, exitStatus, cancelCaddy,
                   cancelEBCFetch, serverIP, childVars, phpVars, monVars, sigs, sigPC,
                   shutdownLog>>

\* main line 168: shuttingDown = true.
MainSetFlag ==
    /\ mainPC = "setFlag"
    /\ shuttingDown' = TRUE
    /\ shutdownLog' = Append(shutdownLog, "flag")
    /\ mainPC' = "killCaddy"
    /\ UNCHANGED <<envVars, cancelCalls, caddyProbes, flagVars, exitStatus, cancelCaddy, cancelEBCFetch,
                   serverIP, childVars, phpVars, monVars, sigVars>>

\* The stop step without its test of the handle: "caddy stop" is always issued.
MainKillCaddyUnguarded ==
    /\ mainPC = "killCaddy"
    /\ caddyStops' = caddyStops + 1
    /\ shutdownLog' = Append(shutdownLog, "caddyStop")
    /\ mainPC' = "killEBC"
    /\ UNCHANGED <<envVars, cancelCalls, caddyProbes, flagVars, shuttingDown, exitStatus, cancelCaddy,
                   cancelEBCFetch, serverIP, caddyfile, caddyRunning, ebcRunning,
                   ebcStops, dbgStarts, browserURL, phpVars, monVars, sigVars>>

\* main lines 169-172 and killCaddy, lines 347-353: "caddy stop" is started
\* and not waited for.
MainKillCaddy ==
    /\ mainPC = "killCaddy"
    /\ IF cancelCaddy # Nil
       THEN /\ caddyStops' = caddyStops + 1
            /\ shutdownLog' = Append(shutdownLog, "caddyStop")
       ELSE UNCHANGED <<caddyStops, shutdownLog>>
    /\ mainPC' = "killEBC"
    /\ UNCHANGED <<envVars, cancelCalls, caddyProbes, flagVars, shuttingDown, exitStatus, cancelCaddy,
                   cancelEBCFetch, serverIP, caddyfile, caddyRunning, ebcRunning,
                   ebcStops, dbgStarts, browserURL, phpVars, monVars, sigVars>>

\* killEBCFetch made to revoke the fetch utility's context: the handle is called.
MainKillEBCFetchCancels ==
    /\ mainPC = "killEBC"
    /\ IF cancelEBCFetch # Nil
       THEN /\ ebcStops' = ebcStops + 1
            /\ cancelCalls' = [cancelCalls EXCEPT !.ebc = @ + 1]
            /\ shutdownLog' = Append(shutdownLog, "ebcStop")
       ELSE UNCHANGED <<ebcStops, cancelCalls, shutdownLog>>
    /\ mainPC' = "return"
    /\ UNCHANGED <<envVars, caddyProbes, flagVars, shuttingDown, exitStatus,
                   cancelCaddy, cancelEBCFetch, serverIP, caddyfile, caddyRunning,
                   caddyStops, ebcRunning, dbgStarts, browserURL, phpVars, monVars,
                   sigVars>>

\* main lines 173-176 and killEBCFetch, lines 355-357 (which does nothing).
\* Neither this step nor any other calls a cancellation handle: main only
\* compares the handles with nil (lines 169 and 173).
MainKillEBCFetch ==
    /\ mainPC = "killEBC"
    /\ IF cancelEBCFetch # Nil
       THEN /\ ebcStops' = ebcStops + 1
            /\ shutdownLog' = Append(shutdownLog, "ebcStop")
       ELSE UNCHANGED <<ebcStops, shutdownLog>>
    /\ mainPC' = "return"
    /\ UNCHANGED <<envVars, cancelCalls, caddyProbes, flagVars, shuttingDown, exitStatus, cancelCaddy,
                   cancelEBCFetch, serverIP, caddyfile, caddyRunning, caddyStops,
                   ebcRunning, dbgStarts, browserURL, phpVars, monVars, sigVars>>

\* main held back at its end until the respawn goroutine is out of its loop
\* (a WaitGroup that runPHP would release on returning).
MainReturnWaitsForLoop ==
    /\ mainPC = "return"
    /\ phpPC \in {"idle", "returned"}
    /\ Exit(0)
    /\ shutdownLog' = Append(shutdownLog, "exit")
    /\ UNCHANGED <<envVars, cancelCalls, caddyProbes, flagVars, shuttingDown, cancelCaddy,
                   cancelEBCFetch, serverIP, childVars, phpVars, monVars, sigVars>>

\* main lines 177-178: main returns, which ends the process with status 0.
MainReturn ==
    /\ mainPC = "return"
    /\ Exit(0)
    /\ shutdownLog' = Append(shutdownLog, "exit")
    /\ UNCHANGED <<envVars, cancelCalls, caddyProbes, flagVars, shuttingDown, cancelCaddy, cancelEBCFetch,
                   serverIP, childVars, phpVars, monVars, sigVars>>

(***************************************************************************)
(* The signal goroutine and the signals sent to the process.               *)
(***************************************************************************)
\* A SIGINT, SIGTERM, SIGHUP or SIGQUIT reaches the process once signal.Notify
\* has registered the channel; a signal that finds the buffer full is dropped.
SignalArrives ==
    /\ Alive
    /\ sigPC # "idle"
    /\ sigs = 0
    /\ sigs' = 1
    /\ UNCHANGED <<envVars, cancelCalls, caddyProbes, flagVars, shuttingDown, mainVars, childVars, phpVars,
                   monVars, sigPC, done, shutdownLog>>

\* main lines 160-166: sig := <-sigs; ...; done <- true.
SignalGoroutine ==
    /\ Alive
    /\ sigPC = "waiting"
    /\ sigs = 1
    /\ sigs' = 0
    /\ done' = 1
    /\ sigPC' = "finished"
    /\ shutdownLog' = Append(shutdownLog, "signal")
    /\ UNCHANGED <<envVars, cancelCalls, caddyProbes, flagVars, shuttingDown, mainVars, childVars, phpVars,
                   monVars>>

(***************************************************************************)
(* The runPHP goroutine.                                                   *)
(***************************************************************************)
\* runPHP lines 261-266: return at once when a listener answers on the CGI port.
PhpProbe ==
    /\ Alive
    /\ phpPC = "probe"
    /\ phpPC' = IF ~rawPortAvail(cgiPortNumber) THEN "returned" ELSE "test"
    /\ UNCHANGED <<envVars, cancelCalls, caddyProbes, flagVars, shuttingDown, mainVars, childVars, childElapsed,
                   launches, launchesAfterFlag, lastRun, phpChildren, monVars, sigVars, shutdownLog>>

\* The loop of runPHP written as "for {": the flag is never consulted.
LoopConditionIgnoresFlag == TRUE

\* runPHP line 268: the loop condition, an unsynchronised read of shuttingDown.
\* The flag is a one-byte global that is reloaded on every iteration (the loop
\* body makes calls), so the read gives the value the flag has at that moment;
\* what the missing synchronisation leaves open is the order of this read and
\* of main's write, which the interleaving of PhpTest and MainSetFlag covers.
LoopCondition == ~shuttingDown

PhpTest ==
    /\ Alive
    /\ phpPC = "test"
    /\ phpPC' = IF LoopCondition THEN "spawn" ELSE "returned"
    /\ UNCHANGED <<envVars, cancelCalls, caddyProbes, flagVars, shuttingDown, mainVars, childVars, childElapsed,
                   launches, launchesAfterFlag, lastRun, phpChildren, monVars, sigVars, shutdownLog>>

\* runPHP leaving its loop when execPHP could not start the child.
PhpSpawnStopsOnError ==
    /\ Alive
    /\ phpPC = "spawn"
    /\ launches < MaxLaunches
    /\ launches' = launches + 1
    /\ launchesAfterFlag' = IF shuttingDown THEN launchesAfterFlag + 1
                            ELSE launchesAfterFlag
    /\ childElapsed' = 0
    /\ \E startOK \in BOOLEAN :
          IF startOK
          THEN /\ phpPC' = "running"
               /\ phpChildren' = phpChildren + 1
               /\ UNCHANGED lastRun
          ELSE /\ phpPC' = "returned"
               /\ lastRun' = [how |-> "startFailed", len |-> 0]
               /\ UNCHANGED phpChildren
    /\ UNCHANGED <<envVars, cancelCalls, caddyProbes, flagVars, shuttingDown, mainVars, childVars, monVars,
                   sigVars, shutdownLog>>

\* execPHP with cmd.Start in place of cmd.Run: the child is started and the
\* loop goes on without waiting for it.
PhpSpawnNoWait ==
    /\ Alive
    /\ phpPC = "spawn"
    /\ launches < MaxLaunches
    /\ launches' = launches + 1
    /\ launchesAfterFlag' = IF shuttingDown THEN launchesAfterFlag + 1
                            ELSE launchesAfterFlag
    /\ childElapsed' = 0
    /\ phpPC' = "test"
    /\ \E startOK \in BOOLEAN :
          IF startOK
          THEN /\ phpChildren' = phpChildren + 1
               /\ UNCHANGED lastRun
          ELSE /\ lastRun' = [how |-> "startFailed", len |-> 0]
               /\ UNCHANGED phpChildren
    /\ UNCHANGED <<envVars, cancelCalls, caddyProbes, flagVars, shuttingDown, mainVars, childVars, monVars,
                   sigVars, shutdownLog>>

\* runPHP lines 269-271 and execPHP line 227: the launch.  A start that fails
\* makes Run return its error at once, which execPHP logs.
PhpSpawn ==
    /\ Alive
    /\ phpPC = "spawn"
    /\ launches < MaxLaunches
    /\ launches' = launches + 1
    /\ launchesAfterFlag' = IF shuttingDown THEN launchesAfterFlag + 1
                            ELSE launchesAfterFlag
    /\ childElapsed' = 0
    /\ \E startOK \in BOOLEAN :
          IF startOK
          THEN /\ phpPC' = "running"
               /\ phpChildren' = phpChildren + 1
               /\ UNCHANGED lastRun
          ELSE /\ phpPC' = "test"
               /\ lastRun' = [how |-> "startFailed", len |-> 0]
               /\ UNCHANGED phpChildren
    /\ UNCHANGED <<envVars, cancelCalls, caddyProbes, flagVars, shuttingDown, mainVars, childVars, monVars,
                   sigVars, shutdownLog>>

\* A minute passes while Run waits for the child; the context of execPHP
\* (line 225) lets the child live spawnInterval minutes at most.  The steps of
\* the loop between two invocations take no time on this scale.
Tick ==
    /\ Alive
    /\ phpPC = "running"
    /\ childElapsed < spawnInterval
    /\ childElapsed' = childElapsed + 1
    /\ UNCHANGED <<envVars, cancelCalls, caddyProbes, flagVars, shuttingDown, mainVars, childVars, phpPC,
                   launches, launchesAfterFlag, lastRun, phpChildren, monVars, sigVars, shutdownLog>>

\* execPHP lines 227-230: the child exits of its own accord, with or without
\* an error, and Run returns.
PhpChildExits ==
    /\ Alive
    /\ phpPC = "running"
    /\ lastRun' = [how |-> "exited", len |-> childElapsed]
    /\ childElapsed' = 0
    /\ phpChildren' = phpChildren - 1
    /\ phpPC' = "test"
    /\ UNCHANGED <<envVars, cancelCalls, caddyProbes, flagVars, shuttingDown, mainVars, childVars, launches,
                   launchesAfterFlag, monVars, sigVars, shutdownLog>>

\* execPHP lines 225-230: the context times out, the child is killed and Run
\* returns the error.
PhpTimeout ==
    /\ Alive
    /\ phpPC = "running"
    /\ childElapsed = spawnInterval
    /\ lastRun' = [how |-> "timeout", len |-> childElapsed]
    /\ childElapsed' = 0
    /\ phpChildren' = phpChildren - 1
    /\ phpPC' = "test"
    /\ UNCHANGED <<envVars, cancelCalls, caddyProbes, flagVars, shuttingDown, mainVars, childVars, launches,
                   launchesAfterFlag, monVars, sigVars, shutdownLog>>

(***************************************************************************)
(* The monitorIP goroutine.                                                *)
(***************************************************************************)
\* The assignment serverIP = myIP left out: the first address is kept.
RememberedStale(myIP, known) == known

\* monitorIP lines 185-188: the address remembered after a lookup gave myIP.
Remembered(myIP, known) == IF ~IPEqual(myIP, known) THEN myIP ELSE known

\* monitorIP lines 185-188: the change lines printed after a lookup gave myIP.
ChangeLines(myIP, known) == IF ~IPEqual(myIP, known) THEN 1 ELSE 0

\* monitorIP lines 182-189: one iteration (sleep, lookup, compare, report).
MonitorPoll ==
    /\ Alive
    /\ monPC = "running"
    /\ \E ok \in BOOLEAN, a \in LocalIPs :
          LET myIP == getOutboundIP(ok, a)
          IN /\ monIP' = Remembered(myIP, monIP)
             /\ pollLogs' = ChangeLines(myIP, monIP)
             /\ lookups' = <<lookups[Len(lookups)], myIP>>
    /\ UNCHANGED <<envVars, cancelCalls, caddyProbes, flagVars, shuttingDown, mainVars, childVars, phpVars,
                   monPC, sigVars, shutdownLog>>

(***************************************************************************)
(* Specifications.                                                         *)
(***************************************************************************)
MainArgs ==
    ArgsOf(ExeNames, BOOLEAN, {FALSE}, {NoArg}, {NoArg}, {NoArg, "*"},
           {<<MaxRespawn>>}, BOOLEAN, BOOLEAN, ExtraArgs)

Init ==
    \E a \in MainArgs, os \in Platforms,
       ls \in SUBSET {portDefault, cgiPortNumber}, ub \in SUBSET {portDefault} :
        InitWith(a, os, ls, ub)

Next ==
    \/ setupRun
    \/ MainIPWatch
    \/ MainDebugPHP
    \/ MainRunCaddy
    \/ MainGoRunPHP
    \/ MainRunEBCFetch
    \/ MainShowInvite
    \/ MainDebugExit
    \/ MainGoMonitor
    \/ MainNotify
    \/ MainWait
    \/ MainSetFlag
    \/ MainKillCaddy
    \/ MainKillEBCFetch
    \/ MainReturn
    \/ SignalArrives
    \/ SignalGoroutine
    \/ PhpProbe
    \/ PhpTest
    \/ PhpSpawn
    \/ Tick
    \/ PhpChildExits
    \/ PhpTimeout
    \/ MonitorPoll

Spec == Init /\ [][Next]_vars

\* The webserver launch on its own: every combination of the options and of
\* the state of the ports that runCaddy reads, up to the return of runCaddy.
CaddyArgs ==
    ArgsOf({"runsm"}, {FALSE}, BOOLEAN, WebPorts \cup {NoArg}, WebPorts \cup {NoArg},
           IPSpecs \cup {NoArg}, {<<MaxRespawn>>}, {FALSE}, {FALSE}, ExtraArgs)

InitCaddy ==
    \E a \in CaddyArgs, os \in Platforms,
       ls \in SUBSET WebPorts, ub \in SUBSET WebPorts :
        InitWith(a, os, ls, ub)

NextCaddy ==
    \/ setupRun
    \/ MainIPWatch
    \/ MainRunCaddy

SpecCaddy == InitCaddy /\ [][NextCaddy]_vars

\* The whole process under fair scheduling of the main thread and of the
\* signal goroutine, with the IP monitor on: the Go scheduler runs a goroutine
\* that can run.  Nothing is assumed of the respawn loop, of the monitor, of
\* the children or of the arrival of signals.
LiveArgs ==
    ArgsOf({"runsm"}, BOOLEAN, {FALSE}, {NoArg}, {NoArg}, {"*"},
           {<<MaxRespawn>>}, {FALSE}, {TRUE}, ExtraArgs)

InitLive ==
    \E a \in LiveArgs, ls \in SUBSET {portDefault, cgiPortNumber} :
        InitWith(a, "linux", ls, {})

\* The steps of func main, lines 118-178.
MainThread ==
    \/ setupRun
    \/ MainIPWatch
    \/ MainDebugPHP
    \/ MainRunCaddy
    \/ MainGoRunPHP
    \/ MainRunEBCFetch
    \/ MainShowInvite
    \/ MainDebugExit
    \/ MainGoMonitor
    \/ MainNotify
    \/ MainWait
    \/ MainSetFlag
    \/ MainKillCaddy
    \/ MainKillEBCFetch
    \/ MainReturn

SpecLive ==
    InitLive /\ [][Next]_vars /\ WF_vars(MainThread) /\ WF_vars(SignalGoroutine)

(***************************************************************************)
(* Vocabulary of the properties.                                           *)
(***************************************************************************)
Exited == mainPC = "exited"

\* The signal goroutine has received a termination signal.
SignalReceived == \E i \in DOMAIN shutdownLog : shutdownLog[i] = "signal"

IsPrefix(s, t) == Len(s) <= Len(t) /\ \A i \in 1..Len(s) : s[i] = t[i]

\* The shutdown steps of a run in the order section 4.6 gives them.
ShutdownOrder ==
    <<"signal", "flag">>
    \o (IF caddyRunning THEN <<"caddyStop">> ELSE <<>>)
    \o (IF ebcRunning THEN <<"ebcStop">> ELSE <<>>)
    \o <<"exit">>

(***************************************************************************)
(* C1.  The claim as made: one launch per interval while the flag is       *)
(* false, and none once it is true.                                        *)
(***************************************************************************)
\* C1 (as claimed): a launch that the loop is about to make comes a whole
\* restart interval after the previous one, and no launch begins once the
\* shutdown flag is true.
C1_ExactlyOnePerInterval ==
    /\ (phpPC = "spawn" /\ lastRun.how # "none") => lastRun.len = spawnInterval
    /\ launchesAfterFlag = 0

\* C1 (amended): an invocation lasts one interval at most, and exactly one
\* interval when it is the timeout that ends it; it ends sooner when the child
\* exits or fails to start, and the loop then launches again; once the flag is
\* true at most one further launch begins.
C1_Respawn ==
    /\ childElapsed <= spawnInterval
    /\ lastRun.len <= spawnInterval
    /\ lastRun.how = "timeout" => lastRun.len = spawnInterval
    /\ lastRun.how = "startFailed" => lastRun.len = 0
    /\ launchesAfterFlag <= 1
    /\ launchesAfterFlag <= launches

\* A launch made after the flag was set, the previous one having been ended
\* by the timeout.
C1_Witness ==
    /\ launchesAfterFlag = 1
    /\ launches >= 2
    /\ lastRun.how = "timeout"

(***************************************************************************)
(* C2.                                                                     *)
(***************************************************************************)
\* C2: after a termination signal the process exits having issued the
\* webserver's stop command if and only if runCaddy started the webserver
\* (returned a handle); with the launch skipped no stop command is ever issued.
C2_StopIffStarted ==
    /\ (caddyRunning <=> cancelCaddy # Nil)
    /\ caddyStops > 0 => (caddyRunning /\ SignalReceived)
    /\ (Exited /\ SignalReceived) => (caddyStops = 1 <=> caddyRunning)
    /\ (Exited /\ SignalReceived) => (caddyStops = 0 <=> ~caddyRunning)

\* A signalled run that started the webserver and has exited with the stop issued.
C2_Witness == Exited /\ SignalReceived /\ caddyRunning /\ caddyStops = 1

(***************************************************************************)
(* C3.                                                                     *)
(***************************************************************************)
\* C3: the shutdown steps happen in the order signal, flag, webserver stop (if
\* it was started), fetch-utility stop (if it was started), normal exit; and
\* none of them before the signal.
C3_ShutdownOrder ==
    /\ IsPrefix(shutdownLog, ShutdownOrder)
    /\ shuttingDown <=> (Len(shutdownLog) >= 2)
    /\ caddyStops = Cardinality({i \in DOMAIN shutdownLog : shutdownLog[i] = "caddyStop"})
    /\ ebcStops = Cardinality({i \in DOMAIN shutdownLog : shutdownLog[i] = "ebcStop"})
    /\ ~SignalReceived => (~shuttingDown /\ caddyStops = 0 /\ ebcStops = 0)
    /\ (Exited /\ SignalReceived) => (shutdownLog = ShutdownOrder /\ exitStatus = 0)

\* A finished shutdown in which both stops were due.
C3_Witness ==
    /\ Exited
    /\ shutdownLog = <<"signal", "flag", "caddyStop", "ebcStop", "exit">>

(***************************************************************************)
(* C4.                                                                     *)
(***************************************************************************)
\* C4: with a listener on the interpreter's port, runPHP launches nothing and
\* returns from its probe; no launch happens later in the run.
C4_OccupiedPortNoLaunch ==
    cgiPortNumber \in listening =>
        /\ launches = 0
        /\ phpPC \in {"idle", "probe", "returned"}

\* runPHP has returned from its probe of the occupied port.
C4_Witness == cgiPortNumber \in listening /\ phpPC = "returned" /\ ~shuttingDown

(***************************************************************************)
(* C5 - C8: the webserver launch.                                          *)
(***************************************************************************)
\* The -port and -altport the run was asked for.
RequestedPort == FlagValue(args.port, portDefault)
RequestedAltPort == FlagValue(args.altport, alternateWebPortDefault)

\* The process was ended by flag.Parse, before any startup step.
UsageExit == mainPC = "exited" /\ args.extra # NoArg

\* runCaddy has returned or ended the process.
CaddyDone == mainPC \notin {"setupRun", "ipWatch", "mode"} /\ ~UsageExit

\* The file holds text as a whole line.
HasLine(f, text) ==
    \E i \in DOMAIN f :
        /\ f[i] = text
        /\ i < Len(f) /\ f[i + 1] = NL
        /\ i > 1 => f[i - 1] = NL

\* C5: bind address "*", the requested port refused by the bind probe and the
\* alternate port accepted by it: the configuration is written for the
\* alternate port, in http_port and in the site address.
C5_FallbackToAlternate ==
    (/\ caddyfile # <<>>
     /\ ipspec = "*"
     /\ ~testWebPort(RequestedPort)
     /\ testWebPort(RequestedAltPort))
    => /\ port = RequestedAltPort
       /\ HasLine(caddyfile, "http_port " \o RequestedAltPort)
       /\ HasLine(caddyfile, "*:" \o RequestedAltPort)
       /\ ~HasLine(caddyfile, "http_port " \o RequestedPort)

\* The fallback has happened and the file is written.
C5_Witness ==
    /\ caddyfile # <<>>
    /\ ipspec = "*"
    /\ ~testWebPort(RequestedPort)
    /\ testWebPort(RequestedAltPort)
    /\ port = RequestedAltPort
    /\ port # RequestedPort

\* C6: bind address "*" and a requested port with no listener that can be
\* bound: runCaddy keeps the requested port, whatever the alternate port is.
C6_PrimaryKept ==
    (/\ CaddyDone
     /\ ipspec = "*"
     /\ rawPortAvail(RequestedPort)
     /\ testWebPort(RequestedPort))
    => /\ port = RequestedPort
       /\ caddyfile # <<>> =>
             /\ HasLine(caddyfile, "http_port " \o RequestedPort)
             /\ HasLine(caddyfile, "*:" \o RequestedPort)

\* The requested port was kept although another, bindable alternate was there.
C6_Witness ==
    /\ caddyfile # <<>>
    /\ ipspec = "*"
    /\ rawPortAvail(RequestedPort)
    /\ testWebPort(RequestedPort)
    /\ RequestedAltPort # RequestedPort
    /\ testWebPort(RequestedAltPort)
    /\ rawPortAvail(RequestedAltPort)

\* C7 (as claimed): with no -ip option the launch behaves as with -ip *: a
\* requested port that cannot be bound gives way to an alternate that can.
C7_DefaultIsWildcard ==
    (/\ CaddyDone
     /\ args.ip = NoArg
     /\ rawPortAvail(RequestedPort)
     /\ ~testWebPort(RequestedPort)
     /\ RequestedAltPort # RequestedPort
     /\ testWebPort(RequestedAltPort))
    => port = RequestedAltPort

\* C8: a configuration file that was written ends with the line
\* "php_fastcgi 127.0.0.1:9000" and its newline.
C8_ConfigEndsWithProxyLine ==
    caddyfile # <<>> =>
        LET n == Len(caddyfile)
        IN /\ n >= 3
           /\ caddyfile[n] = NL
           /\ caddyfile[n - 1] = "php_fastcgi 127.0.0.1:9000"
           /\ caddyfile[n - 2] = NL

\* A file written with proxy-debug on, after a fallback to the alternate port.
C8_Witness ==
    /\ caddyfile # <<>>
    /\ cdebug
    /\ HasLine(caddyfile, "debug")
    /\ port # RequestedPort

(***************************************************************************)
(* C9: the network monitor.                                                *)
(***************************************************************************)
\* C9: an iteration of monitorIP prints no change line when its lookup gives
\* the address the lookup before gave, and exactly one when it gives another;
\* the monitor remembers the address last looked up, the startup lookup being
\* the first.
C9_IPChangeLog ==
    /\ Len(lookups) = 2 => pollLogs = (IF lookups[1] = lookups[2] THEN 0 ELSE 1)
    /\ Len(lookups) < 2 => pollLogs = 0
    /\ monPC = "running" => monIP = lookups[Len(lookups)]
    /\ (mainPC \notin {"setupRun", "ipWatch"} /\ ~UsageExit /\ ipWatch) =>
          serverIP = lookups[1] \/ monPC = "running"

\* The address changed once after startup and the next lookup repeated it:
\* no line for the repeat.
C9_Witness ==
    /\ Len(lookups) = 2
    /\ lookups[1] = lookups[2]
    /\ lookups[2] # serverIP
    /\ pollLogs = 0

(***************************************************************************)
(* C10: debug mode.                                                        *)
(***************************************************************************)
\* The command line was accepted, interpreter-debug is on and the platform
\* has a debug-capable interpreter.
DebugMode == mainPC # "setupRun" /\ ~UsageExit /\ debug /\ phpdbg # ""

\* What C10 says of debug mode apart from the exit status.
DebugSkipsSupervision ==
    /\ ~caddyRunning /\ caddyfile = <<>> /\ cancelCaddy = Nil
    /\ phpPC = "idle" /\ launches = 0
    /\ monPC = "idle"
    /\ sigPC = "idle" /\ ~shuttingDown
    /\ dbgStarts <= 1
    /\ mainPC \notin {"ipWatch", "mode"} => dbgStarts = 1

\* C10 (as claimed): in debug mode nothing is supervised, the interpreter is
\* started directly once and the program exits with status 0.
C10_DebugExitsZero ==
    DebugMode => /\ DebugSkipsSupervision
                 /\ Exited => exitStatus = 0

\* C10 (amended): in debug mode nothing is supervised and the interpreter is
\* started directly once; the program exits with status 0 when that start and
\* the start of the fetch utility both succeed, and with status 1 at the
\* first of the two that fails.
C10_DebugOneShot ==
    DebugMode => /\ DebugSkipsSupervision
                 /\ Exited => /\ exitStatus \in {0, 1}
                              /\ exitStatus = 0 <=> ebcRunning
                 /\ ebcRunning => mainPC \in {"invite", "debugExit", "exited"}

\* A debug run that has quit with status 0, IP watch requested, browser opened.
C10_Witness ==
    /\ DebugMode
    /\ Exited /\ exitStatus = 0
    /\ ipWatch
    /\ browserURL # ""

(***************************************************************************)
(* C11: exit statuses.                                                     *)
(***************************************************************************)
\* The step ends the process.
ProcessEnds == exitStatus = -1 /\ exitStatus' # -1

\* The step is one of the three launch failures, taken as the failing step
\* itself, no later startup step having been taken.
LaunchFailure ==
    \/ /\ mainPC = "mode" /\ debug /\ phpdbg # ""
       /\ dbgStarts' = 1 /\ ~ebcRunning' /\ phpPC' = "idle"
    \/ /\ mainPC = "mode" /\ ~(debug /\ phpdbg # "")
       /\ ~caddyRunning' /\ cancelCaddy' = Nil
       /\ ~ebcRunning' /\ phpPC' = "idle"
    \/ /\ mainPC = "ebc"
       /\ ~ebcRunning' /\ cancelEBCFetch' = Nil

\* C11 (as claimed): the process ends with status 0 when main returns after
\* a signal and when it quits after the debug-mode launch; it ends with a
\* non-zero status in the very step in which the webserver launch, the direct
\* debug launch or the fetch utility's launch fails; no other step ends it
\* with a non-zero status.
C11_ExitStatuses ==
    [][ProcessEnds =>
          /\ mainPC = "return" => (exitStatus' = 0 /\ SignalReceived)
          /\ mainPC = "debugExit" => (exitStatus' = 0 /\ debug)
          /\ exitStatus' # 0 => LaunchFailure]_vars

\* C11 (amended): the process ends with status 0 when main returns after a
\* signal or quits after the debug-mode launch, in both cases with the fetch
\* utility started; it ends with status 1 in the very step in which the
\* webserver launch, the direct debug launch or the fetch utility's launch
\* fails, no later startup step having been taken; the only other way it
\* ends is in the parsing of the command line, before any startup step: with
\* status 0 on a request for help and with status 2 on an argument that
\* flag.Parse rejects.
C11_ExitStatusesWithUsage ==
    /\ [](exitStatus \in {-1, 0, 1, 2})
    /\ []((Exited /\ exitStatus = 1) =>
             /\ ~ebcRunning /\ cancelEBCFetch = Nil
             /\ browserURL = "" /\ monPC = "idle" /\ sigPC = "idle"
             /\ ~shuttingDown /\ caddyStops = 0 /\ ebcStops = 0)
    /\ []((Exited /\ (exitStatus = 2 \/ args.extra # NoArg)) =>
             /\ UsageExit
             /\ exitStatus = (IF args.extra \in {"-h", "-help"} THEN 0 ELSE 2)
             /\ serverIP = "" /\ caddyfile = <<>> /\ caddyProbes = <<>>
             /\ ~caddyRunning /\ cancelCaddy = Nil /\ dbgStarts = 0
             /\ phpPC = "idle" /\ launches = 0
             /\ ~ebcRunning /\ cancelEBCFetch = Nil
             /\ browserURL = "" /\ monPC = "idle" /\ sigPC = "idle"
             /\ ~shuttingDown /\ shutdownLog = <<>>)
    /\ [][ProcessEnds =>
            \/ /\ exitStatus' = 0
               /\ mainPC = "return" /\ SignalReceived /\ ebcRunning
            \/ /\ exitStatus' = 0
               /\ mainPC = "debugExit" /\ debug /\ ebcRunning
            \/ /\ exitStatus' = 1
               /\ LaunchFailure
            \/ /\ exitStatus' = 0
               /\ mainPC = "setupRun" /\ args.extra \in {"-h", "-help"}
            \/ /\ exitStatus' = 2
               /\ mainPC = "setupRun" /\ args.extra \notin {NoArg, "-h", "-help"}]_vars
    /\ [][Exited => UNCHANGED vars]_vars

\* The fetch utility failed to start after the webserver and the respawn loop
\* were started: status 1.
C11_Witness ==
    /\ Exited /\ exitStatus = 1
    /\ caddyRunning
    /\ phpPC # "idle"

(***************************************************************************)
(* C12: the race on the shutdown flag.                                     *)
(***************************************************************************)
\* C12: once main has set shuttingDown the respawn loop begins one further
\* launch at most: only an iteration that had read the flag as false before
\* launches, and the next read of the flag ends the loop.
C12_AtMostOneExtraLaunch ==
    /\ [](launchesAfterFlag = 1 => shuttingDown /\ phpPC \in {"running", "test", "returned"})
    /\ [][launchesAfterFlag' # launchesAfterFlag =>
            /\ launchesAfterFlag = 0 /\ launchesAfterFlag' = 1
            /\ shuttingDown /\ phpPC = "spawn"]_vars
    /\ [][(shuttingDown /\ phpPC = "test" /\ phpPC' # "test") => phpPC' = "returned"]_vars
    /\ [][(shuttingDown /\ phpPC = "returned") => phpPC' = "returned"]_vars

\* The extra launch was made and the loop has then ended on reading the flag.
C12_Witness ==
    /\ launchesAfterFlag = 1
    /\ phpPC = "returned"
    /\ Alive

(***************************************************************************)
(* C13: the cancellation handles.                                          *)
(***************************************************************************)
\* C13 (as claimed): a run that is shut down by a signal has called each
\* cancellation handle it held exactly once when the process exits.
C13_HandlesInvokedOnce ==
    (Exited /\ SignalReceived) =>
        /\ cancelCaddy # Nil => cancelCalls.caddy = 1
        /\ cancelEBCFetch # Nil => cancelCalls.ebc = 1

\* C13 (amended): the handles are never called; shutdown tests each for being
\* present, and the stop step the test guards ("caddy stop", the empty
\* killEBCFetch) has run exactly once when the process exits if the handle
\* is present, and not at all if it is absent.
C13_HandlesOnlyTested ==
    /\ cancelCalls = [caddy |-> 0, ebc |-> 0]
    /\ caddyStops <= 1 /\ ebcStops <= 1
    /\ (Exited /\ SignalReceived) =>
          /\ caddyStops = (IF cancelCaddy # Nil THEN 1 ELSE 0)
          /\ ebcStops = (IF cancelEBCFetch # Nil THEN 1 ELSE 0)

\* A signalled run that held both handles has exited: both stop steps taken,
\* no handle called.
C13_Witness ==
    /\ Exited /\ SignalReceived
    /\ cancelCaddy # Nil /\ cancelEBCFetch # Nil
    /\ caddyStops = 1 /\ ebcStops = 1
    /\ cancelCalls.caddy = 0 /\ cancelCalls.ebc = 0

(***************************************************************************)
(* C14: one interpreter child at a time.                                   *)
(***************************************************************************)
\* C14: at most one interpreter child of the respawn loop is alive at any
\* moment: a child is alive exactly while the loop is blocked in execPHP, so
\* the loop is about to launch only when no child is alive.
C14_AtMostOneChild ==
    /\ phpChildren \in {0, 1}
    /\ phpChildren = 1 <=> phpPC = "running"
    /\ phpPC = "spawn" => phpChildren = 0

\* A later invocation is in flight after the previous one was killed by the
\* forced-restart timeout.
C14_Witness ==
    /\ phpPC = "running" /\ phpChildren = 1
    /\ launches >= 2 /\ lastRun.how = "timeout"

(***************************************************************************)
(* C15: interpreter errors are not fatal.                                  *)
(***************************************************************************)
\* C15: no launch or run-time error of the interpreter ends the process or
\* the respawn loop.  When execPHP returns (start failure, exit of the child,
\* forced-restart timeout) the loop is back at its condition and the process
\* lives on; from the condition the loop goes to the next launch unless it
\* reads the shutdown flag as true; the loop returns only on reading the flag
\* or on finding the interpreter port occupied before its first launch; the
\* step that ends the process is never a step of the loop.
C15_ErrorsNotFatal ==
    /\ [][(phpPC \in {"spawn", "running"} /\ phpPC' # phpPC) =>
             /\ phpPC' \in {"running", "test"}
             /\ phpPC = "running" => phpPC' = "test"
             /\ exitStatus' = exitStatus /\ mainPC' = mainPC]_vars
    /\ [][lastRun' # lastRun =>
             /\ phpPC' = "test" /\ lastRun'.how \in {"startFailed", "exited", "timeout"}
             /\ exitStatus' = exitStatus /\ ~Exited']_vars
    /\ [][(phpPC = "test" /\ phpPC' # phpPC) =>
             phpPC' = IF shuttingDown THEN "returned" ELSE "spawn"]_vars
    /\ [][(phpPC' = "returned" /\ phpPC # "returned") =>
             \/ phpPC = "probe" /\ cgiPortNumber \in listening /\ launches = 0
             \/ phpPC = "test" /\ shuttingDown]_vars
    /\ [][ProcessEnds => phpVars' = phpVars]_vars

\* After a launch that failed the loop has launched again and the process is
\* alive.
C15_Witness ==
    /\ Alive /\ ~shuttingDown
    /\ phpPC = "running" /\ lastRun.how = "startFailed" /\ launches >= 2

(***************************************************************************)
(* C16: a listener already answers on the webserver port.                  *)
(***************************************************************************)
\* runCaddy was called with bind address "*" while a listener answered on the
\* primary port.
SoftConflict ==
    /\ CaddyDone /\ ~DebugMode
    /\ ipspec = "*" /\ RequestedPort \in listening

\* What runCaddy leaves behind on a soft conflict: nothing.
NoWebserver ==
    /\ caddyfile = <<>> /\ ~caddyRunning /\ cancelCaddy = Nil
    /\ port = RequestedPort /\ caddyStops = 0

\* C16 (as claimed): on a soft conflict runCaddy writes no file, launches no
\* webserver and returns no handle, and the process then always reaches the
\* wait for a signal: it exits only after a signal was received.
C16_SoftConflictWaitsForSignal ==
    SoftConflict => (NoWebserver /\ (Exited => SignalReceived))

\* C16 (amended): on a soft conflict runCaddy writes no file, launches no
\* webserver and returns no handle, after probing the primary port only; the
\* conflict itself is not fatal: the respawn loop is started and the fetch
\* utility launch is attempted, and the process reaches the wait for a signal
\* unless that launch fails (status 1) or the debug flag makes it quit
\* (status 0).
C16_SoftConflictNotFatal ==
    SoftConflict =>
        /\ NoWebserver
        /\ caddyProbes = <<"dial " \o RequestedPort>>
        /\ mainPC # "goPHP" => phpPC # "idle"
        /\ mainPC \notin {"goPHP", "ebc", "exited"} => ebcRunning
        /\ mainPC \in {"goMonitor", "notify", "wait"} => ~debug
        /\ (Exited /\ ~SignalReceived) =>
              \/ exitStatus = 1 /\ ~ebcRunning /\ cancelEBCFetch = Nil
              \/ exitStatus = 0 /\ debug /\ ebcRunning

\* A run with a soft conflict waits for a signal, loop and fetch utility
\* started.
C16_Witness ==
    /\ SoftConflict /\ NoWebserver
    /\ mainPC = "wait" /\ sigPC = "waiting"
    /\ phpPC # "idle" /\ ebcRunning

(***************************************************************************)
(* C17: the requested port is kept outside the successful fallback.        *)
(***************************************************************************)
\* The one case in which runCaddy changes the port.
SuccessfulFallback ==
    /\ ipspec = "*"
    /\ rawPortAvail(RequestedPort) /\ ~testWebPort(RequestedPort)
    /\ RequestedAltPort # RequestedPort /\ testWebPort(RequestedAltPort)

\* Bind address "*", the primary port free of listeners but refused by the
\* bind probe, and no alternate to fall back to.
FailedFallback ==
    /\ ipspec = "*"
    /\ rawPortAvail(RequestedPort) /\ ~testWebPort(RequestedPort)
    /\ RequestedAltPort = RequestedPort \/ ~testWebPort(RequestedAltPort)

\* C17: once runCaddy is done the port differs from the requested one only
\* after a successful fallback.  With a bind address other than "*" no probe
\* was made.  With "*", a primary port that cannot be bound and an alternate
\* that is the same port or cannot be bound either, runCaddy went on with the
\* requested port: it did not skip the launch, any file it wrote names the
\* requested port, and it returned only with the webserver launched from
\* that file.
C17_PortKeptOtherwise ==
    CaddyDone =>
        /\ port # RequestedPort => (SuccessfulFallback /\ port = RequestedAltPort)
        /\ ipspec # "*" => caddyProbes = <<>>
        /\ FailedFallback =>
              /\ port = RequestedPort
              /\ caddyProbes[1] = "dial " \o RequestedPort
              /\ caddyProbes[2] = "listen " \o RequestedPort
              /\ Len(caddyProbes) =
                    (IF RequestedAltPort = RequestedPort THEN 2 ELSE 3)
              /\ caddyfile # <<>> =>
                    /\ HasLine(caddyfile, "http_port " \o RequestedPort)
                    /\ HasLine(caddyfile, "*:" \o RequestedPort)
              /\ ~Exited => (caddyRunning /\ cancelCaddy # Nil /\ caddyfile # <<>>)
              /\ Exited => exitStatus = 1

\* The webserver was launched on the requested port after both bind probes
\* failed.
C17_Witness ==
    /\ FailedFallback /\ RequestedAltPort # RequestedPort
    /\ caddyRunning /\ port = RequestedPort
    /\ HasLine(caddyfile, "*:" \o RequestedPort)
    /\ Len(caddyProbes) = 3

(***************************************************************************)
(* C18: shutdown does not wait.                                            *)
(***************************************************************************)
\* C18: a termination signal that has been delivered to the process leads to
\* the exit of the process, whatever the respawn loop, the IP monitor and the
\* children do or fail to do: only the main thread and the signal goroutine
\* need to be scheduled.
C18_SignalLeadsToExit == (sigs = 1 \/ SignalReceived) ~> Exited

\* The process has exited on a signal while an interpreter invocation was in
\* flight, the respawn loop blocked in it and the monitor running.
C18_Witness ==
    /\ Exited /\ SignalReceived /\ exitStatus = 0
    /\ phpPC = "running" /\ phpChildren = 1
    /\ monPC # "idle"

(***************************************************************************)
(* C19: the webserver is stopped on the signal path only.                  *)
(***************************************************************************)
\* The process has ended on the failure of the fetch utility's launch with
\* the webserver started.
FetchFailedAfterWebserver == Exited /\ caddyRunning /\ ~ebcRunning

\* C19: the webserver's stop command is issued only after a signal was
\* received and the shutdown flag set; a run that ends on the failure of the
\* fetch utility's launch after the webserver was started ends with status 1,
\* the flag unset, no stop command issued and no shutdown step taken.
C19_StopOnlyOnSignalPath ==
    /\ caddyStops > 0 => (SignalReceived /\ shuttingDown /\ cancelCaddy # Nil)
    /\ FetchFailedAfterWebserver =>
          /\ exitStatus = 1
          /\ ~shuttingDown /\ ~SignalReceived
          /\ caddyStops = 0 /\ cancelCaddy # Nil
          /\ cancelEBCFetch = Nil
          /\ shutdownLog = <<>>

\* The fetch utility failed to start after the webserver was launched and an
\* interpreter child started: the process is gone, the webserver is not
\* stopped.
C19_Witness ==
    /\ FetchFailedAfterWebserver /\ exitStatus = 1
    /\ caddyStops = 0 /\ ~shuttingDown
    /\ phpChildren = 1

(***************************************************************************)
(* C20: the order of startup.                                              *)
(***************************************************************************)
\* The process has ended inside runCaddy: the configuration file could not be
\* created or "caddy start" failed.
WebserverFatal ==
    /\ Exited /\ CaddyDone /\ ~DebugMode
    /\ cancelCaddy = Nil
    /\ ~(ipspec = "*" /\ RequestedPort \in listening)

\* C20: the respawn loop exists only after runCaddy has returned, with the
\* webserver started or the launch skipped; the fetch utility is launched
\* only after the mode branch is over (the loop started or, in debug mode,
\* the debugger started); an interpreter is launched only by a started loop;
\* so a run that ended inside runCaddy has launched neither interpreter nor
\* fetch utility.
C20_StartupOrder ==
    /\ phpPC # "idle" =>
          /\ CaddyDone /\ ~DebugMode /\ mainPC # "goPHP"
          /\ \/ caddyRunning /\ cancelCaddy # Nil /\ caddyfile # <<>>
             \/ ~caddyRunning /\ cancelCaddy = Nil /\ caddyfile = <<>>
    /\ (launches > 0 \/ phpChildren > 0) => phpPC # "idle"
    /\ (ebcRunning \/ cancelEBCFetch # Nil) =>
          /\ mainPC \notin {"setupRun", "ipWatch", "mode", "goPHP", "ebc"}
          /\ phpPC # "idle" \/ (DebugMode /\ dbgStarts = 1)
    /\ WebserverFatal =>
          /\ exitStatus = 1
          /\ phpPC = "idle" /\ launches = 0 /\ phpChildren = 0
          /\ ~ebcRunning /\ cancelEBCFetch = Nil
          /\ dbgStarts = 0 /\ ~caddyRunning

\* "caddy start" failed after the file was written: the process is gone with
\* no loop, no interpreter and no fetch utility.
C20_Witness ==
    /\ WebserverFatal /\ caddyfile # <<>>
    /\ phpPC = "idle" /\ launches = 0 /\ ~ebcRunning

====
